---- MODULE Spec2Model ----
(***************************************************************************)
(* A model of my_malloc.c: a free-list allocator (best fit, address-ordered *)
(* singly linked free list, split from the high end, coalesce after every  *)
(* insertion) on top of my_sbrk.                                           *)
(*                                                                         *)
(* Memory is an array of cells.  A block header takes TOTAL_METADATA_SIZE  *)
(* = 2 cells: the size field at the block's address and the next field in  *)
(* the cell after it; the payload follows.  Header fields live in the same *)
(* memory as payloads.  A cell that is neither a field of a header in use  *)
(* nor part of a payload the caller owns holds Indet: its content is       *)
(* whatever was left there, and the code reads it only by mistake.         *)
(***************************************************************************)
EXTENDS Integers, FiniteSets, Sequences, TLC

\* ------------------------------------------------------------ constants
\* my_malloc.h is not part of the sources; the two sizes are scaled down.
TOTAL_METADATA_SIZE == 2
SBRK_SIZE == 9
\* First address my_sbrk hands out; larger than any size the heap can hold,
\* so that a size read as a pointer is never a mapped address.
HeapBase == 100
\* bestSize's initial value in find_best_fit (0xffffffff in the source; the
\* largest integer the checker handles here, far above every size).
BestSizeInit == 2147483647
\* size_t arithmetic is modulo SizeMod (scaled: 2^4) in my_calloc's product.
SizeMod == 16

\* ------------------------------------------------------------ bounds
\* my_sbrk succeeds at most MaxChunks times (the harness's heap is finite).
MaxChunks == 2
\* The caller holds at most MaxLive allocations at a time.
MaxLive == 3
\* my_calloc's arguments range over 0..MaxNmemb.
MaxNmemb == 3
\* The caller makes at most MaxCalls calls; at most MaxReallocCalls where
\* my_realloc and writes to the payloads are among them.
MaxCalls == 7
MaxReallocCalls == 5
\* At most MaxCallocCalls calls where my_calloc is among them.
MaxCallocCalls == 4

NULL == 0
NO_ERROR == "NO_ERROR"
OUT_OF_MEMORY == "OUT_OF_MEMORY"
SINGLE_REQUEST_TOO_LARGE == "SINGLE_REQUEST_TOO_LARGE"
Errnos == {NO_ERROR, OUT_OF_MEMORY, SINGLE_REQUEST_TOO_LARGE}

\* Largest request one chunk can serve, and the request sizes tried
\* (0, every servable size, one oversized).
MaxRequest == SBRK_SIZE - TOTAL_METADATA_SIZE
Sizes == 0..(MaxRequest + 1)
\* What the caller stores in a payload cell.
UserVals == {1}
\* The content of a cell nobody has written since it last changed hands.
Indet == 0 - 1
\* A pointer to memory that is not part of the heap.
Wild == 1

HeapEnd == HeapBase + MaxChunks * SBRK_SIZE
Cells == HeapBase..(HeapEnd - 1)

VARIABLES
  mem,              \* the heap's cells (cells at or above brk are not mapped)
  brk,              \* end of the heap obtained from my_sbrk so far
  address_list,     \* head of the free list
  my_malloc_errno,
  live,             \* payload pointer -> requested size, for every pointer
                    \* returned to the caller and not released since
  status,           \* "ok", or why the last call never returned
  last,             \* the last call: which one, its arguments, what it
                    \* returned, and my_malloc_errno before it
  calls             \* the number of calls made so far

vars == <<mem, brk, address_list, my_malloc_errno, live, status, last, calls>>

\* ------------------------------------------------------------ memory
Mapped(a, b) == a >= HeapBase /\ a < b
\* A header field can be read when its cell is mapped and holds a value.
\* Reading anything else is undefined: the call ends in "fault".
Readable(m, a, b) == Mapped(a, b) /\ m[a] # Indet

\* A scan that has taken more steps than the heap has cells is revisiting a
\* header: the list is cyclic and the loop never ends.
Fuel(b) == b - HeapBase + 1

OkRes(m, al) == [mem |-> m, al |-> al, st |-> "ok"]
BadRes(m, al, why) == [mem |-> m, al |-> al, st |-> why]

\* ------------------------------------------------------------ helpers
\* merge (lines 23-26): left absorbs right and takes over its link.
merge(m, left, right) ==
  LET m1 == [m EXCEPT ![left] = m[left] + m[right] + TOTAL_METADATA_SIZE]
  IN  [m1 EXCEPT ![left + 1] = m1[right + 1]]

\* The while loop of mergeAll (lines 38-45); i records whether a merge happened.
RECURSIVE mergeAllLoop(_, _, _, _, _, _)
mergeAllLoop(m, b, prev, curr, i, fuel) ==
  IF curr = NULL THEN [mem |-> m, i |-> i, st |-> "ok"]
  ELSE IF fuel = 0 THEN [mem |-> m, i |-> i, st |-> "hang"]
  ELSE IF ~Readable(m, prev, b) THEN [mem |-> m, i |-> i, st |-> "fault"]
  ELSE
    LET adj == (prev + TOTAL_METADATA_SIZE + m[prev] = curr) IN
    IF ~Readable(m, curr + 1, b) \/ (adj /\ ~(Readable(m, curr, b) /\ Mapped(prev + 1, b)))
    THEN [mem |-> m, i |-> i, st |-> "fault"]
    ELSE
      LET m2 == IF adj THEN merge(m, prev, curr) ELSE m
      IN  mergeAllLoop(m2, b, curr, m2[curr + 1], i \/ adj, fuel - 1)

\* mergeAll (lines 31-49): passes over the list until one merges nothing.
RECURSIVE mergeAllRec(_, _, _, _)
mergeAllPass(r, al, b, depth) ==
  IF r.st # "ok" THEN BadRes(r.mem, al, r.st)
  ELSE IF ~r.i THEN OkRes(r.mem, al)
  ELSE IF depth = 0 THEN BadRes(r.mem, al, "hang")
  ELSE mergeAllRec(r.mem, al, b, depth - 1)

mergeAllRec(m, al, b, depth) ==
  IF al = NULL THEN OkRes(m, al)
  ELSE IF ~Readable(m, al + 1, b) THEN BadRes(m, al, "fault")
  ELSE mergeAllPass(mergeAllLoop(m, b, al, m[al + 1], FALSE, Fuel(b)), al, b, depth)

mergeAll(m, al, b) == mergeAllRec(m, al, b, Fuel(b))

\* split_block (lines 56-62): the new block is cut off block's high end. Its
\* next field is not written.
split_block(m, b, block, size) ==
  LET realSize == size + TOTAL_METADATA_SIZE
      newBlock == block + TOTAL_METADATA_SIZE + m[block] - realSize
      m1 == [m EXCEPT ![block] = m[block] - realSize]
  IN  IF ~Mapped(newBlock, b) THEN [mem |-> m1, ret |-> newBlock, st |-> "fault"]
      ELSE [mem |-> [m1 EXCEPT ![newBlock] = size], ret |-> newBlock, st |-> "ok"]

\* The while loop of add_to_addr_list (lines 74-77).
RECURSIVE addLoop(_, _, _, _, _, _)
addLoop(m, b, block, prev, curr, fuel) ==
  IF curr = NULL \/ ~(curr < block) THEN [prev |-> prev, curr |-> curr, st |-> "ok"]
  ELSE IF fuel = 0 THEN [prev |-> prev, curr |-> curr, st |-> "hang"]
  ELSE IF ~Readable(m, curr + 1, b) THEN [prev |-> prev, curr |-> curr, st |-> "fault"]
  ELSE addLoop(m, b, block, curr, m[curr + 1], fuel - 1)

\* add_to_addr_list (lines 67-86). With an empty list the block becomes the
\* head and its next field is left as it is (lines 68-71): the link it had
\* when it left the list or, for a block made by split_block, a field that was
\* never written, whose content g is anything.
addLink(m, al, b, block, r) ==
  IF r.st # "ok" THEN BadRes(m, al, r.st)
  ELSE IF ~Mapped(block + 1, b) THEN BadRes(m, al, "fault")
  ELSE IF r.prev = NULL
    THEN OkRes([m EXCEPT ![block + 1] = r.curr], block)
    ELSE OkRes([m EXCEPT ![r.prev + 1] = block, ![block + 1] = r.curr], al)

add_to_addr_list(m, al, b, block, g) ==
  IF al = NULL THEN
    IF Mapped(block + 1, b) /\ m[block + 1] = Indet
    THEN OkRes([m EXCEPT ![block + 1] = g], block)
    ELSE OkRes(m, block)
  ELSE addLink(m, al, b, block, addLoop(m, b, block, NULL, al, Fuel(b)))

\* The while loop of remove_from_addr_list (lines 97-100).
RECURSIVE removeLoop(_, _, _, _, _, _)
removeLoop(m, b, block, prev, curr, fuel) ==
  IF curr = NULL \/ curr = block THEN [prev |-> prev, curr |-> curr, st |-> "ok"]
  ELSE IF fuel = 0 THEN [prev |-> prev, curr |-> curr, st |-> "hang"]
  ELSE IF ~Readable(m, curr + 1, b) THEN [prev |-> prev, curr |-> curr, st |-> "fault"]
  ELSE removeLoop(m, b, block, curr, m[curr + 1], fuel - 1)

\* remove_from_addr_list (lines 91-109). The removed block keeps its link.
removeLink(m, al, b, r) ==
  IF r.st # "ok" THEN BadRes(m, al, r.st)
  ELSE IF r.prev = NULL
    THEN IF ~Readable(m, r.curr + 1, b) THEN BadRes(m, al, "fault")
         ELSE OkRes(m, m[r.curr + 1])
  ELSE IF r.curr = NULL THEN OkRes(m, al)
  ELSE IF ~Readable(m, r.curr + 1, b) THEN BadRes(m, al, "fault")
  ELSE OkRes([m EXCEPT ![r.prev + 1] = m[r.curr + 1]], al)

remove_from_addr_list(m, al, b, block) ==
  IF al = NULL THEN OkRes(m, al)
  ELSE removeLink(m, al, b, removeLoop(m, b, block, NULL, al, Fuel(b)))

\* First loop of find_best_fit (lines 122-129): an exact fit ends the search;
\* otherwise bestSize becomes the least size above the request.
RECURSIVE bestLoop1(_, _, _, _, _, _)
bestLoop1(m, b, size, curr, bestSize, fuel) ==
  IF curr = NULL THEN [ret |-> NULL, bestSize |-> bestSize, st |-> "ok"]
  ELSE IF fuel = 0 THEN [ret |-> NULL, bestSize |-> bestSize, st |-> "hang"]
  ELSE IF ~Readable(m, curr, b) THEN [ret |-> NULL, bestSize |-> bestSize, st |-> "fault"]
  ELSE IF m[curr] = size THEN [ret |-> curr, bestSize |-> bestSize, st |-> "ok"]
  ELSE IF ~Readable(m, curr + 1, b) THEN [ret |-> NULL, bestSize |-> bestSize, st |-> "fault"]
  ELSE bestLoop1(m, b, size, m[curr + 1],
                 IF m[curr] > size /\ m[curr] < bestSize THEN m[curr] ELSE bestSize,
                 fuel - 1)

\* Second loop of find_best_fit (lines 131-137): the first block of bestSize.
RECURSIVE bestLoop2(_, _, _, _, _)
bestLoop2(m, b, curr, bestSize, fuel) ==
  IF curr = NULL THEN [ret |-> NULL, st |-> "ok"]
  ELSE IF fuel = 0 THEN [ret |-> NULL, st |-> "hang"]
  ELSE IF ~Readable(m, curr, b) THEN [ret |-> NULL, st |-> "fault"]
  ELSE IF m[curr] = bestSize THEN [ret |-> curr, st |-> "ok"]
  ELSE IF ~Readable(m, curr + 1, b) THEN [ret |-> NULL, st |-> "fault"]
  ELSE bestLoop2(m, b, m[curr + 1], bestSize, fuel - 1)

\* find_best_fit (lines 116-139).
bestSecond(m, al, b, r1) ==
  IF r1.st # "ok" \/ r1.ret # NULL THEN [ret |-> r1.ret, st |-> r1.st]
  ELSE bestLoop2(m, b, al, r1.bestSize, Fuel(b))

find_best_fit(m, al, b, size) ==
  IF al = NULL THEN [ret |-> NULL, st |-> "ok"]
  ELSE bestSecond(m, al, b, bestLoop1(m, b, size, al, BestSizeInit, Fuel(b)))

\* ------------------------------------------------------------ my_sbrk
\* The heap-extension primitive (not part of the sources): it hands out the
\* next SBRK_SIZE cells, or fails with the sentinel -1. It fails when the
\* heap is exhausted, and may fail earlier (avail = FALSE).
my_sbrk(b, avail) ==
  IF avail /\ b + SBRK_SIZE <= HeapEnd
  THEN [ret |-> b, brk |-> b + SBRK_SIZE]
  ELSE [ret |-> 0 - 1, brk |-> b]

\* ------------------------------------------------------------ public calls
\* What a public call leaves behind: memory, list head, heap end, errno, the
\* returned pointer, whether the call returned ("ok") and how my_sbrk was used.
Result(m, al, b, e, ret, st, sbrk) ==
  [mem |-> m, al |-> al, brk |-> b, errno |-> e, ret |-> ret, st |-> st, sbrk |-> sbrk]

\* memcpy(dst, src, n) and memset(dst, v, n) over cells.
Range(a, n) == a..(a + n - 1)
AllMapped(a, n, b) == \A c \in Range(a, n) : Mapped(c, b)
memcpy(m, dst, src, n) ==
  [c \in DOMAIN m |-> IF c \in Range(dst, n) THEN m[src + (c - dst)] ELSE m[c]]
memset(m, dst, v, n) ==
  [c \in DOMAIN m |-> IF c \in Range(dst, n) THEN v ELSE m[c]]

\* A block handed to the caller: the content of the size cells asked for is
\* unspecified until the caller writes them.
Handout(m, al, b, ptr, size, sbrk) ==
  Result(memset(m, ptr, Indet, size), al, b, NO_ERROR, ptr, "ok", sbrk)

\* my_malloc, lines 174-190: hand out temp, whole or split.
Unlinked(r, b, temp, size, sbrk) ==
  IF r.st = "ok"
  THEN Handout(r.mem, r.al, b, temp + TOTAL_METADATA_SIZE, size, sbrk)
  ELSE Result(r.mem, r.al, b, NO_ERROR, NULL, r.st, sbrk)

Splitted(s, al, b, size, sbrk) ==
  IF s.st = "ok"
  THEN Handout(s.mem, al, b, s.ret + TOTAL_METADATA_SIZE, size, sbrk)
  ELSE Result(s.mem, al, b, NO_ERROR, NULL, s.st, sbrk)

\* Variant: the split threshold forgets the one byte the rest must keep.
Carve_thin(m, al, b, size, temp, sbrk) ==
  IF ~Readable(m, temp, b) THEN Result(m, al, b, NO_ERROR, NULL, "fault", sbrk)
  ELSE IF m[temp] < size THEN Result(m, al, b, NO_ERROR, NULL, "ok", sbrk)
  ELSE IF m[temp] > size /\ m[temp] >= size + TOTAL_METADATA_SIZE
    THEN Splitted(split_block(m, b, temp, size), al, b, size, sbrk)
  ELSE Unlinked(remove_from_addr_list(m, al, b, temp), b, temp, size, sbrk)

Carve(m, al, b, size, temp, sbrk) ==
  IF ~Readable(m, temp, b) THEN Result(m, al, b, NO_ERROR, NULL, "fault", sbrk)
  ELSE IF m[temp] < size THEN Result(m, al, b, NO_ERROR, NULL, "ok", sbrk)
  ELSE IF m[temp] > size /\ m[temp] >= size + TOTAL_METADATA_SIZE + 1
    THEN Splitted(split_block(m, b, temp, size), al, b, size, sbrk)
  ELSE Unlinked(remove_from_addr_list(m, al, b, temp), b, temp, size, sbrk)

\* Variant: after the extension a block must be larger than the request.
Refit_strict(g, f, b, size) ==
  IF f.st # "ok" THEN Result(g.mem, g.al, b, NO_ERROR, NULL, f.st, "ok")
  ELSE IF f.ret = NULL THEN Result(g.mem, g.al, b, OUT_OF_MEMORY, NULL, "ok", "ok")
  ELSE IF ~Readable(g.mem, f.ret, b) THEN
    Result(g.mem, g.al, b, NO_ERROR, NULL, "fault", "ok")
  ELSE IF g.mem[f.ret] <= size THEN
    Result(g.mem, g.al, b, OUT_OF_MEMORY, NULL, "ok", "ok")
  ELSE Carve(g.mem, g.al, b, size, f.ret, "ok")

\* my_malloc, lines 157-173: no fitting block, so extend the heap by one chunk,
\* put it on the list, coalesce and search again.
Refit(g, f, b, size) ==
  IF f.st # "ok" THEN Result(g.mem, g.al, b, NO_ERROR, NULL, f.st, "ok")
  ELSE IF f.ret = NULL THEN Result(g.mem, g.al, b, OUT_OF_MEMORY, NULL, "ok", "ok")
  ELSE IF ~Readable(g.mem, f.ret, b) THEN
    Result(g.mem, g.al, b, NO_ERROR, NULL, "fault", "ok")
  ELSE IF g.mem[f.ret] < size THEN
    Result(g.mem, g.al, b, OUT_OF_MEMORY, NULL, "ok", "ok")
  ELSE Carve(g.mem, g.al, b, size, f.ret, "ok")

Merged(g, b, size) ==
  IF g.st # "ok" THEN Result(g.mem, g.al, b, NO_ERROR, NULL, g.st, "ok")
  ELSE Refit(g, find_best_fit(g.mem, g.al, b, size), b, size)

Added(a, b, size) ==
  IF a.st # "ok" THEN Result(a.mem, a.al, b, NO_ERROR, NULL, a.st, "ok")
  ELSE Merged(mergeAll(a.mem, a.al, b), b, size)

\* Variant: a failed my_sbrk is reported without setting my_malloc_errno.
Grown_silent(m, al, b, sb, size) ==
  IF sb.ret = 0 - 1 THEN Result(m, al, b, NO_ERROR, NULL, "ok", "fail")
  ELSE Added(add_to_addr_list([m EXCEPT ![sb.ret] = SBRK_SIZE - TOTAL_METADATA_SIZE,
                                        ![sb.ret + 1] = NULL],
                              al, sb.brk, sb.ret, NULL),
             sb.brk, size)

Grown(m, al, b, sb, size) ==
  IF sb.ret = 0 - 1 THEN Result(m, al, b, OUT_OF_MEMORY, NULL, "ok", "fail")
  ELSE Added(add_to_addr_list([m EXCEPT ![sb.ret] = SBRK_SIZE - TOTAL_METADATA_SIZE,
                                        ![sb.ret + 1] = NULL],
                              al, sb.brk, sb.ret, NULL),
             sb.brk, size)

Extend(m, al, b, size, avail) == Grown(m, al, b, my_sbrk(b, avail), size)

\* Variant: only an exact fit is taken from the list; otherwise the heap grows.
Fitted_eager(m, al, b, size, avail, f) ==
  IF f.st # "ok" THEN Result(m, al, b, NO_ERROR, NULL, f.st, "none")
  ELSE IF f.ret = NULL THEN Extend(m, al, b, size, avail)
  ELSE IF Readable(m, f.ret, b) /\ m[f.ret] # size THEN Extend(m, al, b, size, avail)
  ELSE Carve(m, al, b, size, f.ret, "none")

\* my_malloc (lines 147-191).
Fitted(m, al, b, size, avail, f) ==
  IF f.st # "ok" THEN Result(m, al, b, NO_ERROR, NULL, f.st, "none")
  ELSE IF f.ret = NULL THEN Extend(m, al, b, size, avail)
  ELSE Carve(m, al, b, size, f.ret, "none")

\* Variant: the size check forgets the header (size > SBRK_SIZE).
my_malloc_chunk(m, al, b, size, avail) ==
  IF size > SBRK_SIZE THEN
    Result(m, al, b, SINGLE_REQUEST_TOO_LARGE, NULL, "ok", "none")
  ELSE IF size = 0 THEN Result(m, al, b, NO_ERROR, NULL, "ok", "none")
  ELSE Fitted(m, al, b, size, avail, find_best_fit(m, al, b, size))

\* Variant: a request of size 0 is served like any other.
my_malloc_nozero(m, al, b, size, avail) ==
  IF size > SBRK_SIZE - TOTAL_METADATA_SIZE THEN
    Result(m, al, b, SINGLE_REQUEST_TOO_LARGE, NULL, "ok", "none")
  ELSE Fitted(m, al, b, size, avail, find_best_fit(m, al, b, size))

my_malloc(m, al, b, size, avail) ==
  IF size > SBRK_SIZE - TOTAL_METADATA_SIZE THEN
    Result(m, al, b, SINGLE_REQUEST_TOO_LARGE, NULL, "ok", "none")
  ELSE IF size = 0 THEN Result(m, al, b, NO_ERROR, NULL, "ok", "none")
  ELSE Fitted(m, al, b, size, avail, find_best_fit(m, al, b, size))

\* my_free (lines 235-243).
Coalesced(mg, b) == Result(mg.mem, mg.al, b, NO_ERROR, NULL, mg.st, "none")

Inserted(a, b) ==
  IF a.st # "ok" THEN Result(a.mem, a.al, b, NO_ERROR, NULL, a.st, "none")
  ELSE Coalesced(mergeAll(a.mem, a.al, b), b)

my_free(m, al, b, ptr, g) ==
  IF ptr = NULL THEN Result(m, al, b, NO_ERROR, NULL, "ok", "none")
  ELSE Inserted(add_to_addr_list(m, al, b, ptr - TOTAL_METADATA_SIZE, g), b)

\* my_realloc (lines 196-216).
Released(f, r) ==
  Result(f.mem, f.al, f.brk, f.errno, IF f.st = "ok" THEN r.ret ELSE NULL, f.st, r.sbrk)

Copied(r, ptr, min, g) ==
  IF ~(AllMapped(r.ret, min, r.brk) /\ AllMapped(ptr, min, r.brk))
  THEN Result(r.mem, r.al, r.brk, r.errno, NULL, "fault", r.sbrk)
  ELSE Released(my_free(memcpy(r.mem, r.ret, ptr, min), r.al, r.brk, ptr, g), r)

\* Variant: the old block is released even when no new block was obtained.
Moved_release(r, ptr, size, g) ==
  IF r.st # "ok" THEN r
  ELSE IF r.ret = NULL THEN Released(my_free(r.mem, r.al, r.brk, ptr, g), r)
  ELSE IF ~Readable(r.mem, ptr - TOTAL_METADATA_SIZE, r.brk)
    THEN Result(r.mem, r.al, r.brk, r.errno, NULL, "fault", r.sbrk)
  ELSE Copied(r, ptr,
              IF r.mem[ptr - TOTAL_METADATA_SIZE] > size
              THEN size ELSE r.mem[ptr - TOTAL_METADATA_SIZE],
              g)

Moved(r, ptr, size, g) ==
  IF r.st # "ok" \/ r.ret = NULL THEN r
  ELSE IF ~Readable(r.mem, ptr - TOTAL_METADATA_SIZE, r.brk)
    THEN Result(r.mem, r.al, r.brk, r.errno, NULL, "fault", r.sbrk)
  ELSE Copied(r, ptr,
              IF r.mem[ptr - TOTAL_METADATA_SIZE] > size
              THEN size ELSE r.mem[ptr - TOTAL_METADATA_SIZE],
              g)

\* Variant: size 0 is not treated apart; the old block is kept.
my_realloc_nozero(m, al, b, ptr, size, avail, g) ==
  IF ptr = NULL THEN my_malloc(m, al, b, size, avail)
  ELSE Moved(my_malloc(m, al, b, size, avail), ptr, size, g)

my_realloc(m, al, b, ptr, size, avail, g) ==
  IF ptr = NULL THEN my_malloc(m, al, b, size, avail)
  ELSE IF size = 0 THEN my_free(m, al, b, ptr, g)
  ELSE Moved(my_malloc(m, al, b, size, avail), ptr, size, g)

\* my_calloc (lines 221-230): the product is taken in size_t arithmetic.
Zeroed(r, total) ==
  IF r.st # "ok" \/ r.ret = NULL THEN r
  ELSE IF ~AllMapped(r.ret, total, r.brk)
    THEN Result(r.mem, r.al, r.brk, r.errno, NULL, "fault", r.sbrk)
  ELSE Result(memset(r.mem, r.ret, 0, total), r.al, r.brk, r.errno, r.ret, "ok", r.sbrk)

\* Variant: a product beyond size_t is refused.
my_calloc_guarded(m, al, b, nmemb, size, avail) ==
  IF nmemb * size >= SizeMod
  THEN Result(m, al, b, SINGLE_REQUEST_TOO_LARGE, NULL, "ok", "none")
  ELSE Zeroed(my_malloc(m, al, b, nmemb * size, avail), nmemb * size)

my_calloc(m, al, b, nmemb, size, avail) ==
  Zeroed(my_malloc(m, al, b, (nmemb * size) % SizeMod, avail), (nmemb * size) % SizeMod)

\* ------------------------------------------------------------ the caller
Live == DOMAIN live
Without(f, p) == [q \in (DOMAIN f) \ {p} |-> f[q]]
\* The record of a call: which one, its pointer and size arguments (NULL and 0
\* where it has none; for my_calloc the size is the product nmemb * size as a
\* number, before it is cut to size_t), what it returned, my_malloc_errno
\* before it, and whether it called my_sbrk ("none") and with what result.
Call(op, ptr, size, r) ==
  [op |-> op, ptr |-> ptr, size |-> size, ret |-> r.ret, was |-> my_malloc_errno,
   sbrk |-> r.sbrk]

\* A request that can produce a block is made only while the caller holds
\* fewer than MaxLive allocations.
Room(size) == size \in 1..MaxRequest => Cardinality(Live) < MaxLive

\* The headers on the free list, as far as the list can be followed.
RECURSIVE ListFrom(_, _, _, _)
ListFrom(m, b, curr, fuel) ==
  IF curr = NULL \/ fuel = 0 \/ ~Mapped(curr, b) THEN {}
  ELSE IF ~Readable(m, curr + 1, b) THEN {curr}
  ELSE {curr} \cup ListFrom(m, b, m[curr + 1], fuel - 1)
FreeList(m, al, b) == ListFrom(m, b, al, Fuel(b))

\* The cells whose content matters: the fields of the headers on the free list
\* and of the blocks the caller holds, and the payload cells the caller asked
\* for. Every other mapped cell is abstracted to Indet after each call.
Kept(m, al, b, lv) ==
  UNION {{a, a + 1} : a \in FreeList(m, al, b)}
  \cup UNION {(p - TOTAL_METADATA_SIZE)..(p + lv[p] - 1) : p \in DOMAIN lv}
Canon(m, al, b, lv) ==
  LET k == Kept(m, al, b, lv)
  IN  [c \in DOMAIN m |-> IF c \in k THEN m[c] ELSE Indet]

\* What a field that was never written may hold when add_to_addr_list makes
\* its block the head, and the scans then follow as a pointer: NULL (zeroed
\* memory), a value that is no address of the heap, or the address of a
\* block (left there by the caller while the cell was payload): of these, the
\* heap's first block.
Garbage == {NULL, Wild, HeapBase}
GarbageAt(ptr) ==
  IF ptr # NULL /\ mem[ptr - 1] = Indet THEN Garbage ELSE {NULL}

\* Variant: my_malloc_errno is written on failure only, never cleared.
Commit_carry(r, lv) ==
  /\ calls < MaxCalls
  /\ calls' = calls + 1
  /\ mem' = Canon(r.mem, r.al, r.brk, lv)
  /\ brk' = r.brk
  /\ address_list' = r.al
  /\ my_malloc_errno' = IF r.errno = NO_ERROR THEN my_malloc_errno ELSE r.errno
  /\ status' = r.st
  /\ live' = lv

Commit(r, lv) ==
  /\ calls < MaxCalls
  /\ calls' = calls + 1
  /\ mem' = Canon(r.mem, r.al, r.brk, lv)
  /\ brk' = r.brk
  /\ address_list' = r.al
  /\ my_malloc_errno' = r.errno
  /\ status' = r.st
  /\ live' = lv

Init ==
  /\ mem = [c \in Cells |-> Indet]
  /\ brk = HeapBase
  /\ address_list = NULL
  /\ my_malloc_errno = NO_ERROR
  /\ live = <<>>
  /\ status = "ok"
  /\ last = [op |-> "none", ptr |-> NULL, size |-> 0, ret |-> NULL, was |-> NO_ERROR,
             sbrk |-> "none"]
  /\ calls = 0

Malloc(size, avail) ==
  /\ status = "ok"
  /\ Room(size)
  /\ LET r == my_malloc(mem, address_list, brk, size, avail) IN
     /\ Commit(r, IF r.st = "ok" /\ r.ret # NULL THEN (r.ret :> size) @@ live ELSE live)
     /\ last' = Call("malloc", NULL, size, r)

Free(ptr, g) ==
  /\ status = "ok"
  /\ LET r == my_free(mem, address_list, brk, ptr, g) IN
     /\ Commit(r, IF r.st = "ok" THEN Without(live, ptr) ELSE live)
     /\ last' = Call("free", ptr, 0, r)

Realloc(ptr, size, avail, g) ==
  /\ status = "ok"
  /\ ptr = NULL => Room(size)
  /\ LET r == my_realloc(mem, address_list, brk, ptr, size, avail, g) IN
     /\ Commit(r, IF r.st # "ok" THEN live
                  ELSE IF r.ret # NULL THEN (r.ret :> size) @@ Without(live, ptr)
                  ELSE IF size = 0 THEN Without(live, ptr)
                  ELSE live)
     /\ last' = Call("realloc", ptr, size, r)

Calloc(nmemb, size, avail) ==
  /\ status = "ok"
  /\ Room((nmemb * size) % SizeMod)
  /\ LET r == my_calloc(mem, address_list, brk, nmemb, size, avail) IN
     /\ Commit(r, IF r.st = "ok" /\ r.ret # NULL
                  THEN (r.ret :> ((nmemb * size) % SizeMod)) @@ live ELSE live)
     /\ last' = Call("calloc", NULL, nmemb * size, r)

\* The caller fills the payload it asked for with v.
Write(ptr, v) ==
  /\ status = "ok"
  /\ IF AllMapped(ptr, live[ptr], brk)
     THEN mem' = memset(mem, ptr, v, live[ptr]) /\ status' = "ok"
     ELSE mem' = mem /\ status' = "fault"
  /\ last' = Call("write", ptr, live[ptr], [ret |-> NULL, sbrk |-> "none"])
  /\ calls < MaxCalls
  /\ calls' = calls + 1
  /\ UNCHANGED <<brk, address_list, my_malloc_errno, live>>

\* The allocation core: my_malloc and my_free with every request size.
Next ==
  \/ \E size \in Sizes, avail \in BOOLEAN : Malloc(size, avail)
  \/ \E ptr \in Live \cup {NULL} : \E g \in GarbageAt(ptr) : Free(ptr, g)

Spec == Init /\ [][Next]_vars

\* The same with my_realloc, and a caller that writes to its payloads.
ReallocSizes == {0, 2, MaxRequest + 1}
Short == calls < MaxReallocCalls
NextRealloc ==
  \/ \E size \in {1, 2, MaxRequest}, avail \in BOOLEAN : Short /\ Malloc(size, avail)
  \/ \E ptr \in Live : \E g \in GarbageAt(ptr) : Short /\ Free(ptr, g)
  \/ \E ptr \in Live \cup {NULL}, size \in ReallocSizes, avail \in BOOLEAN :
       \E g \in GarbageAt(ptr) : Short /\ Realloc(ptr, size, avail, g)
  \/ \E ptr \in Live, v \in UserVals : Short /\ Write(ptr, v)

SpecRealloc == Init /\ [][NextRealloc]_vars

\* The allocation core with my_calloc, whose arguments reach products beyond
\* SizeMod.
Few == calls < MaxCallocCalls
NextCalloc ==
  \/ \E size \in {1, 2, MaxRequest}, avail \in BOOLEAN : Few /\ Malloc(size, avail)
  \/ \E ptr \in Live : \E g \in GarbageAt(ptr) : Few /\ Free(ptr, g)
  \/ \E nmemb \in 0..MaxNmemb, size \in Sizes, avail \in BOOLEAN :
       Few /\ Calloc(nmemb, size, avail)

SpecCalloc == Init /\ [][NextCalloc]_vars

\* ------------------------------------------------------------ properties
\* The state is one a public call can be made in: every call so far returned.
Returned == status = "ok"

\* The bytes of a block: its header and the payload its size field gives.
Extent(m, a) == a..(a + TOTAL_METADATA_SIZE + m[a] - 1)
\* The blocks on the free list and the blocks the caller holds.
FreeBlocks == FreeList(mem, address_list, brk)
LiveBlocks == {p - TOTAL_METADATA_SIZE : p \in Live}
\* The bytes the caller owns through p: header and requested payload.
Owned(p) == (p - TOTAL_METADATA_SIZE)..(p + live[p] - 1)

\* C1: in every state reached under valid usage, a successful my_malloc(s)
\* with 0 < s <= SBRK_SIZE - TOTAL_METADATA_SIZE returns a payload of at
\* least s bytes inside the heap that overlaps the header or payload of no
\* allocation that is live; the same block is never handed out twice.
C1_MallocDisjoint ==
  Returned =>
    \A size \in 1..MaxRequest, avail \in BOOLEAN :
      LET r == my_malloc(mem, address_list, brk, size, avail) IN
      (r.st = "ok" /\ r.ret # NULL) =>
        /\ AllMapped(r.ret - TOTAL_METADATA_SIZE, size + TOTAL_METADATA_SIZE, r.brk)
        /\ r.mem[r.ret - TOTAL_METADATA_SIZE] >= size
        /\ \A p \in Live : Range(r.ret, size) \cap Owned(p) = {}

\* C2: after every public call the blocks on the free list and the live
\* blocks, each taken as header plus size bytes, are pairwise disjoint and
\* cover exactly the bytes obtained from my_sbrk; no block is both live and
\* on the free list.
C2_Partition ==
  Returned =>
    /\ FreeBlocks \cap LiveBlocks = {}
    /\ \A a \in FreeBlocks \cup LiveBlocks : Readable(mem, a, brk)
    /\ \A a, c \in FreeBlocks \cup LiveBlocks :
         a # c => Extent(mem, a) \cap Extent(mem, c) = {}
    /\ UNION {Extent(mem, a) : a \in FreeBlocks \cup LiveBlocks} = HeapBase..(brk - 1)

\* C3: every public call terminates: no scan of the free list runs forever
\* (the list never becomes cyclic) and mergeAll reaches a pass without merge.
C3_Terminates == status # "hang"

\* Total payload bytes and number of blocks on the free list.
RECURSIVE SumSizes(_, _)
SumSizes(m, S) ==
  IF S = {} THEN 0
  ELSE LET a == CHOOSE x \in S : TRUE IN m[a] + SumSizes(m, S \ {a})
FreeBytes(m, al, b) == SumSizes(m, FreeList(m, al, b))
FreeCount(m, al, b) == Cardinality(FreeList(m, al, b))

\* What the never-written next field of the block behind ptr may hold in m.
GarbageIn(m, ptr) ==
  IF ptr # NULL /\ m[ptr - 1] = Indet THEN Garbage ELSE {NULL}

\* p = my_malloc(size) immediately followed by my_free(p), from the current
\* state: both calls return and the free list has the payload bytes and the
\* number of blocks it had before.
RoundTrip(size, avail) ==
  LET r == my_malloc(mem, address_list, brk, size, avail) IN
  /\ r.st = "ok"
  /\ \A g \in GarbageIn(r.mem, r.ret) :
       LET f == my_free(r.mem, r.al, r.brk, r.ret, g) IN
       /\ f.st = "ok"
       /\ FreeBytes(f.mem, f.al, f.brk) = FreeBytes(mem, address_list, brk)
       /\ FreeCount(f.mem, f.al, f.brk) = FreeCount(mem, address_list, brk)

\* C4: for any s in any reachable state, p = my_malloc(s) immediately
\* followed by my_free(p) leaves the free payload bytes and the number of
\* free-list blocks as they were before the my_malloc call, also when the
\* allocation had to extend the heap.
C4_RoundTripAlways ==
  Returned => \A size \in Sizes, avail \in BOOLEAN : RoundTrip(size, avail)

\* Live blocks at a and c are physically adjacent, a first.
Adjacent(a, c) == a + TOTAL_METADATA_SIZE + mem[a] = c
\* No block on the free list ends where a starts or starts where c ends.
NoFreeNeighbour(a, c) ==
  \A f \in FreeBlocks :
    /\ Readable(mem, f, brk)
    /\ f + TOTAL_METADATA_SIZE + mem[f] # a
    /\ f # c + TOTAL_METADATA_SIZE + mem[c]
\* my_free(first) then my_free(second), a and c being the two blocks: both
\* calls return and leave one free block at a of the combined size, none at c.
FreedBoth(first, second, a, c) ==
  \A g1 \in GarbageIn(mem, first) :
    LET r1 == my_free(mem, address_list, brk, first, g1) IN
    /\ r1.st = "ok"
    /\ \A g2 \in GarbageIn(r1.mem, second) :
         LET r2 == my_free(r1.mem, r1.al, r1.brk, second, g2) IN
         /\ r2.st = "ok"
         /\ a \in FreeList(r2.mem, r2.al, r2.brk)
         /\ c \notin FreeList(r2.mem, r2.al, r2.brk)
         /\ r2.mem[a] = mem[a] + mem[c] + TOTAL_METADATA_SIZE

\* C5: two live blocks A and B that are physically adjacent, neither with a
\* free neighbour, are one free block at A of size A.size + B.size +
\* TOTAL_METADATA_SIZE, with no entry at B, after my_free of both in either order.
C5_Coalescing ==
  Returned =>
    \A pa, pb \in Live :
      LET a == pa - TOTAL_METADATA_SIZE
          c == pb - TOTAL_METADATA_SIZE
      IN  (Readable(mem, a, brk) /\ Readable(mem, c, brk)
           /\ Adjacent(a, c) /\ NoFreeNeighbour(a, c)) =>
            FreedBoth(pa, pb, a, c) /\ FreedBoth(pb, pa, a, c)

\* The call returned and left memory, free list and heap end as they were.
Untouched(r) ==
  r.st = "ok" /\ r.mem = mem /\ r.al = address_list /\ r.brk = brk

\* C6: for a live ptr and size > 0, when my_realloc cannot obtain a new block
\* (the size is too large, or my_sbrk fails) it returns NULL, the block at
\* ptr is still live with its size and payload unchanged, and the free list
\* is as before (the block has not been inserted).
C6_ReallocFailureSafe ==
  Returned =>
    /\ \A ptr \in Live, size \in 1..(MaxRequest + 1), avail \in BOOLEAN :
         \A g \in GarbageAt(ptr) :
           (size > MaxRequest
            \/ my_malloc(mem, address_list, brk, size, avail).sbrk = "fail") =>
             LET r == my_realloc(mem, address_list, brk, ptr, size, avail, g)
             IN  r.ret = NULL /\ Untouched(r)
    /\ (last.op = "realloc" /\ last.ptr # NULL /\ last.size > 0 /\ last.ret = NULL) =>
         last.ptr \in Live

\* C6's case has happened: my_realloc of a live block whose payload the caller
\* had written failed because my_sbrk failed, and the payload is still there.
C6_Witness ==
  /\ Returned /\ last.op = "realloc" /\ last.ptr \in Live
  /\ last.size \in 1..MaxRequest /\ last.ret = NULL
  /\ my_malloc_errno = OUT_OF_MEMORY
  /\ \A c \in Range(last.ptr, live[last.ptr]) : mem[c] \in UserVals

\* C7: when my_malloc fails because my_sbrk returned the failure sentinel, it
\* returns NULL with my_malloc_errno = OUT_OF_MEMORY, and the free list (every
\* member, size and link) and every live block are exactly as before.
C7_FailedMallocUnchanged ==
  Returned =>
    \A size \in Sizes, avail \in BOOLEAN :
      LET r == my_malloc(mem, address_list, brk, size, avail) IN
      r.sbrk = "fail" =>
        r.ret = NULL /\ r.errno = OUT_OF_MEMORY /\ Untouched(r)

\* C7's case has happened: a my_malloc that could be served failed for lack of
\* heap, with blocks on the free list and live blocks in place.
C7_Witness ==
  /\ Returned /\ last.op = "malloc" /\ last.size \in 1..MaxRequest
  /\ last.ret = NULL /\ my_malloc_errno = OUT_OF_MEMORY
  /\ address_list # NULL /\ Live # {}

\* C8: in every reachable state my_malloc(size) with size > SBRK_SIZE -
\* TOTAL_METADATA_SIZE returns NULL with my_malloc_errno =
\* SINGLE_REQUEST_TOO_LARGE, does not call my_sbrk and leaves the free list
\* unchanged.
C8_Oversized ==
  Returned =>
    \A size \in (MaxRequest + 1)..(SBRK_SIZE + 1), avail \in BOOLEAN :
      LET r == my_malloc(mem, address_list, brk, size, avail) IN
      /\ r.ret = NULL /\ r.errno = SINGLE_REQUEST_TOO_LARGE
      /\ r.sbrk = "none" /\ Untouched(r)

\* C8's case has happened: an oversized my_malloc was made with blocks on the
\* free list.
C8_Witness ==
  /\ Returned /\ last.op = "malloc" /\ last.size > MaxRequest
  /\ my_malloc_errno = SINGLE_REQUEST_TOO_LARGE /\ address_list # NULL

\* C9: in every reachable state, whatever my_malloc_errno was before,
\* my_malloc(0) returns NULL with my_malloc_errno = NO_ERROR, does not call
\* my_sbrk and leaves the free list unchanged.
C9_ZeroSize ==
  Returned =>
    /\ \A avail \in BOOLEAN :
         LET r == my_malloc(mem, address_list, brk, 0, avail) IN
         /\ r.ret = NULL /\ r.errno = NO_ERROR
         /\ r.sbrk = "none" /\ Untouched(r)
    /\ (last.op = "malloc" /\ last.size = 0) =>
         last.ret = NULL /\ my_malloc_errno = NO_ERROR

\* C9's case has happened: my_malloc(0) was called while my_malloc_errno held
\* an error, with blocks on the free list.
C9_Witness ==
  /\ Returned /\ last.op = "malloc" /\ last.size = 0
  /\ last.was # NO_ERROR /\ address_list # NULL

\* C10: for a live ptr in any reachable state, my_realloc(ptr, 0) returns NULL
\* and leaves memory, the free list, my_malloc_errno and the caller's live
\* blocks exactly as my_free(ptr) does from the same state.
C10_ReallocZeroIsFree ==
  Returned =>
    /\ \A ptr \in Live, avail \in BOOLEAN :
         \A g \in GarbageAt(ptr) :
           LET r == my_realloc(mem, address_list, brk, ptr, 0, avail, g)
               f == my_free(mem, address_list, brk, ptr, g)
           IN  /\ r.ret = NULL
               /\ r.mem = f.mem /\ r.al = f.al /\ r.brk = f.brk
               /\ r.errno = f.errno /\ r.st = f.st
    /\ (last.op = "realloc" /\ last.ptr # NULL /\ last.size = 0) =>
         last.ret = NULL /\ last.ptr \notin Live

\* C10's case has happened: my_realloc(ptr, 0) released a live block onto the
\* free list while other blocks were live.
C10_Witness ==
  /\ Returned /\ last.op = "realloc" /\ last.ptr # NULL /\ last.size = 0
  /\ (last.ptr - TOTAL_METADATA_SIZE) \in FreeBlocks /\ Live # {}

\* The bytes covered by the blocks on the free list of a state.
FreeCover(m, al, b) ==
  UNION {IF Readable(m, a, b) THEN Extent(m, a) ELSE {a} : a \in FreeList(m, al, b)}
\* The number of payload bytes my_realloc copies out of ptr's block.
CopyLen(ptr, size) ==
  IF mem[ptr - TOTAL_METADATA_SIZE] > size THEN size ELSE mem[ptr - TOTAL_METADATA_SIZE]

\* C11: for a live ptr and size > 0, a my_realloc(ptr, size) that succeeds
\* returns a pointer to another block than ptr's, whose first min(old block
\* size, size) payload bytes are the old payload's bytes as they were before
\* the call, and the old block has been returned to the free list.
C11_ReallocMoves ==
  Returned =>
    \A ptr \in Live, size \in 1..MaxRequest, avail \in BOOLEAN :
      \A g \in GarbageAt(ptr) :
        LET r == my_realloc(mem, address_list, brk, ptr, size, avail, g) IN
        (r.st = "ok" /\ r.ret # NULL) =>
          /\ r.ret # ptr
          /\ \A i \in 0..(CopyLen(ptr, size) - 1) : r.mem[r.ret + i] = mem[ptr + i]
          /\ (ptr - TOTAL_METADATA_SIZE) \in FreeCover(r.mem, r.al, r.brk)

\* nmemb * size as my_calloc computes it, in size_t arithmetic.
Product(nmemb, size) == (nmemb * size) % SizeMod

\* C12: my_calloc(nmemb, size) behaves as my_malloc(t), t being nmemb * size
\* in size_t arithmetic: it fails exactly when my_malloc(t) fails, with the
\* same my_malloc_errno and the same heap, and on success returns my_malloc's
\* block, of at least t bytes, with its first t payload bytes zero and
\* nothing else changed.
C12_CallocAsMalloc ==
  Returned =>
    \A nmemb \in 0..MaxNmemb, size \in Sizes, avail \in BOOLEAN :
      LET t == Product(nmemb, size)
          c == my_calloc(mem, address_list, brk, nmemb, size, avail)
          a == my_malloc(mem, address_list, brk, t, avail)
      IN  /\ c.st = a.st /\ c.ret = a.ret /\ c.errno = a.errno
          /\ c.al = a.al /\ c.brk = a.brk
          /\ (a.st = "ok" /\ a.ret = NULL) => c.mem = a.mem
          /\ (a.st = "ok" /\ a.ret # NULL) =>
               /\ c.mem[c.ret - TOTAL_METADATA_SIZE] >= t
               /\ \A x \in Cells :
                    c.mem[x] = IF x \in Range(c.ret, t) THEN 0 ELSE a.mem[x]

\* C12's case has happened: a my_calloc whose true product is beyond size_t
\* returned a zeroed block smaller than the product.
C12_Witness ==
  /\ Returned /\ last.op = "calloc" /\ last.size >= SizeMod
  /\ last.ret \in Live /\ live[last.ret] < last.size
  /\ \A x \in Range(last.ret, live[last.ret]) : mem[x] = 0

\* The error state a returned call of the allocation family leaves, given the
\* size it asked my_malloc for: NO_ERROR with a non-NULL result or size 0, an
\* error only with a NULL result and the matching reason.
ErrnoRight(r, size) ==
  r.st = "ok" =>
    /\ r.errno \in Errnos
    /\ (r.ret # NULL \/ size = 0) => r.errno = NO_ERROR
    /\ r.errno = SINGLE_REQUEST_TOO_LARGE => (r.ret = NULL /\ size > MaxRequest)
    /\ r.errno = OUT_OF_MEMORY =>
         (r.ret = NULL /\ size \in 1..MaxRequest /\ r.sbrk # "none")

\* The size the last call asked my_malloc for.
LastSize == IF last.op = "calloc" THEN last.size % SizeMod ELSE last.size

\* C13: every public call overwrites the error state: after it returns,
\* my_malloc_errno is NO_ERROR if the call was my_free, a size-0 request or
\* returned a pointer, and is SINGLE_REQUEST_TOO_LARGE or OUT_OF_MEMORY only
\* if that call returned NULL for that reason, whatever the value before.
C13_ErrnoOverwritten ==
  Returned =>
    /\ \A size \in Sizes, avail \in BOOLEAN :
         ErrnoRight(my_malloc(mem, address_list, brk, size, avail), size)
    /\ \A nmemb \in 0..MaxNmemb, size \in Sizes, avail \in BOOLEAN :
         ErrnoRight(my_calloc(mem, address_list, brk, nmemb, size, avail),
                    Product(nmemb, size))
    /\ \A ptr \in Live \cup {NULL} : \A g \in GarbageAt(ptr) :
         /\ LET f == my_free(mem, address_list, brk, ptr, g)
            IN  f.st = "ok" => f.errno = NO_ERROR
         /\ \A size \in Sizes, avail \in BOOLEAN :
              ErrnoRight(my_realloc(mem, address_list, brk, ptr, size, avail, g), size)
    /\ last.op \in {"malloc", "calloc", "realloc", "free"} =>
         /\ (last.op = "free" \/ last.ret # NULL \/ LastSize = 0) =>
              my_malloc_errno = NO_ERROR
         /\ my_malloc_errno = SINGLE_REQUEST_TOO_LARGE =>
              (last.ret = NULL /\ LastSize > MaxRequest)
         /\ my_malloc_errno = OUT_OF_MEMORY =>
              (last.ret = NULL /\ LastSize \in 1..MaxRequest)

\* C13's case has happened: a call made while my_malloc_errno held an error
\* returned a pointer and left NO_ERROR.
C13_Witness ==
  /\ Returned /\ last.op \in {"malloc", "realloc"} /\ last.was # NO_ERROR
  /\ last.ret # NULL /\ my_malloc_errno = NO_ERROR

\* The free list as the sequence of blocks met from address_list on, ended by
\* NULL if the links end, cut off after as many blocks as the heap has cells.
RECURSIVE Chain(_, _, _, _)
Chain(m, b, curr, fuel) ==
  IF curr = NULL THEN <<>>
  ELSE IF fuel = 0 THEN <<curr>>
  ELSE IF ~Readable(m, curr + 1, b) THEN <<curr, Indet>>
  ELSE <<curr>> \o Chain(m, b, m[curr + 1], fuel - 1)
FreeChain == Chain(mem, brk, address_list, Fuel(brk))

\* C14: after every public call the free list reachable from address_list is
\* finite, NULL-terminated and strictly ascending by block address, with no
\* block appearing twice.
C14_SortedList ==
  Returned =>
    /\ Len(FreeChain) <= Fuel(brk)
    /\ \A i \in 1..Len(FreeChain) : Mapped(FreeChain[i], brk)
    /\ \A i \in 1..(Len(FreeChain) - 1) : FreeChain[i] < FreeChain[i + 1]

\* C15: after every public call no two blocks on the free list are physically
\* adjacent: no entries X, Y with X + TOTAL_METADATA_SIZE + X.size = Y.
C15_NoAdjacentFree ==
  Returned =>
    \A x, y \in FreeBlocks :
      Readable(mem, x, brk) => x + TOTAL_METADATA_SIZE + mem[x] # y

\* The free blocks that can serve a request of size s, and the one best fit
\* names: least size, and of those the lowest address.
Fitting(s) == {x \in FreeBlocks : Readable(mem, x, brk) /\ mem[x] >= s}
BestFit(s) ==
  CHOOSE x \in Fitting(s) :
    \A y \in Fitting(s) : mem[x] < mem[y] \/ (mem[x] = mem[y] /\ x <= y)

\* C16: whenever the free list holds a block of size >= s, my_malloc(s) takes
\* its memory from the free block of least size >= s and, of several such,
\* from the one with the lowest address.
C16_BestFit ==
  Returned =>
    \A size \in 1..MaxRequest, avail \in BOOLEAN :
      Fitting(size) # {} =>
        LET r == my_malloc(mem, address_list, brk, size, avail) IN
        /\ r.st = "ok" /\ r.ret # NULL /\ r.sbrk = "none"
        /\ Range(r.ret - TOTAL_METADATA_SIZE, size + TOTAL_METADATA_SIZE)
             \subseteq Extent(mem, BestFit(size))

\* The heap my_malloc(size) chooses its block in: the current one if it has a
\* fitting block, otherwise the one with a new chunk added and coalesced.
Grow(sb) ==
  add_to_addr_list([mem EXCEPT ![sb.ret] = SBRK_SIZE - TOTAL_METADATA_SIZE,
                               ![sb.ret + 1] = NULL],
                   address_list, sb.brk, sb.ret, NULL)
Pool(size, avail) ==
  IF find_best_fit(mem, address_list, brk, size).ret # NULL
       \/ my_sbrk(brk, avail).ret = 0 - 1
  THEN [mem |-> mem, al |-> address_list, brk |-> brk]
  ELSE LET a == Grow(my_sbrk(brk, avail))
           g == mergeAll(a.mem, a.al, my_sbrk(brk, avail).brk)
       IN  [mem |-> g.mem, al |-> g.al, brk |-> my_sbrk(brk, avail).brk]
\* The block chosen in the heap h.
Chosen(h, size) == find_best_fit(h.mem, h.al, h.brk, size).ret

\* What my_malloc(size) = r did with the chosen block B of the heap h.
SplitRight(h, r, B, size) ==
  IF h.mem[B] >= size + TOTAL_METADATA_SIZE + 1
  THEN /\ r.ret + size = B + TOTAL_METADATA_SIZE + h.mem[B]
       /\ r.mem[r.ret - TOTAL_METADATA_SIZE] = size
       /\ r.mem[B] = h.mem[B] - (size + TOTAL_METADATA_SIZE)
       /\ r.mem[B] >= 1
       /\ r.mem[B + 1] = h.mem[B + 1]
       /\ Chain(r.mem, r.brk, r.al, Fuel(r.brk)) = Chain(h.mem, h.brk, h.al, Fuel(h.brk))
  ELSE /\ r.ret = B + TOTAL_METADATA_SIZE
       /\ r.mem[B] = h.mem[B]
       /\ B \notin FreeList(r.mem, r.al, r.brk)

\* C17: when the block B chosen for my_malloc(s) has B.size >= s +
\* TOTAL_METADATA_SIZE + 1, the returned block has size s and is the high end
\* of B, and B stays on the free list at its address and position with its
\* size reduced by s + TOTAL_METADATA_SIZE; otherwise B leaves the free list
\* and is returned whole, its size unchanged. The size of the block returned
\* lies between s and s + TOTAL_METADATA_SIZE.
C17_SplitPolicy ==
  Returned =>
    \A size \in 1..MaxRequest, avail \in BOOLEAN :
      LET r == my_malloc(mem, address_list, brk, size, avail)
          h == Pool(size, avail)
          B == Chosen(h, size)
      IN  (r.st = "ok" /\ r.ret # NULL) =>
            /\ B # NULL
            /\ SplitRight(h, r, B, size)
            /\ r.mem[r.ret - TOTAL_METADATA_SIZE] \in size..(size + TOTAL_METADATA_SIZE)

\* C17's cases have happened: the last my_malloc split its block, whose rest
\* lies on the free list right below the block returned, and the caller holds
\* a block that was handed over whole, larger than asked for.
C17_Witness ==
  /\ Returned /\ last.op = "malloc" /\ last.ret # NULL
  /\ mem[last.ret - TOTAL_METADATA_SIZE] = last.size
  /\ \E x \in FreeBlocks :
       x + TOTAL_METADATA_SIZE + mem[x] = last.ret - TOTAL_METADATA_SIZE
  /\ \E q \in Live : mem[q - TOTAL_METADATA_SIZE] > live[q]

\* What a returned call r that asked my_malloc for size bytes did to the heap
\* end: nothing, or one chunk of SBRK_SIZE added by its one my_sbrk call,
\* made only when no block on the free list could serve the request.
GrowthRight(r, size) ==
  r.st = "ok" =>
    /\ \/ r.brk = brk /\ r.sbrk \in {"none", "fail"}
       \/ r.brk = brk + SBRK_SIZE /\ r.sbrk = "ok"
    /\ r.sbrk # "none" => (size \in 1..MaxRequest /\ Fitting(size) = {})

\* C18: a public call invokes my_sbrk at most once, for SBRK_SIZE, and only
\* after find_best_fit found no free block of size >= the request; my_free
\* never invokes it. The heap never shrinks, and never grows while a fitting
\* free block exists.
C18_GrowthOrder ==
  Returned =>
    /\ \A size \in Sizes, avail \in BOOLEAN :
         GrowthRight(my_malloc(mem, address_list, brk, size, avail), size)
    /\ \A nmemb \in 0..MaxNmemb, size \in Sizes, avail \in BOOLEAN :
         GrowthRight(my_calloc(mem, address_list, brk, nmemb, size, avail),
                     Product(nmemb, size))
    /\ \A ptr \in Live \cup {NULL} : \A g \in GarbageAt(ptr) :
         /\ LET f == my_free(mem, address_list, brk, ptr, g)
            IN  f.sbrk = "none" /\ f.brk = brk
         /\ \A size \in Sizes, avail \in BOOLEAN :
              GrowthRight(my_realloc(mem, address_list, brk, ptr, size, avail, g), size)
    /\ last.sbrk # "none" => last.op \in {"malloc", "calloc", "realloc"}
    /\ brk \in {HeapBase + n * SBRK_SIZE : n \in 0..MaxChunks}

\* C18's case has happened: a call found no fitting block on a free list that
\* held blocks, and obtained the heap's second chunk.
C18_Witness ==
  /\ Returned /\ last.sbrk = "ok" /\ last.ret # NULL
  /\ brk = HeapBase + 2 * SBRK_SIZE
  /\ Cardinality(FreeBlocks) >= 2

\* The header cells of the blocks the caller holds other than ptr's.
OtherHeaders(ptr) ==
  UNION {{q - TOTAL_METADATA_SIZE, q - 1} : q \in Live \ {ptr}}

\* C19: for a live ptr in any reachable state, my_free(ptr) makes the bytes
\* covered by free-list blocks grow by exactly the header and payload of ptr's
\* block; no other block enters the free list and no header of a block still
\* live is modified.
C19_FreeFrame ==
  Returned =>
    \A ptr \in Live : \A g \in GarbageAt(ptr) :
      LET f == my_free(mem, address_list, brk, ptr, g) IN
      /\ f.st = "ok"
      /\ FreeCover(f.mem, f.al, f.brk) =
           FreeCover(mem, address_list, brk)
             \cup Extent(mem, ptr - TOTAL_METADATA_SIZE)
      /\ \A c \in OtherHeaders(ptr) : f.mem[c] = mem[c]

\* C20: my_malloc reports OUT_OF_MEMORY only when my_sbrk failed: whenever
\* my_sbrk succeeds, my_malloc(s) succeeds for every s with
\* 0 < s <= SBRK_SIZE - TOTAL_METADATA_SIZE, the whole usable chunk included,
\* so neither the failure branch after the extension nor the final return
\* NULL is taken.
C20_OnlySbrkFails ==
  Returned =>
    \A size \in 1..MaxRequest, avail \in BOOLEAN :
      LET r == my_malloc(mem, address_list, brk, size, avail) IN
      /\ r.errno = OUT_OF_MEMORY => r.sbrk = "fail"
      /\ r.sbrk = "ok" => (r.st = "ok" /\ r.ret # NULL /\ r.errno = NO_ERROR)
      /\ (r.st = "ok" /\ r.ret = NULL) => r.sbrk = "fail"

\* C20's case has happened: a my_malloc for the whole usable chunk found no
\* fitting block on a free list that held blocks, extended the heap and
\* succeeded.
C20_Witness ==
  /\ Returned /\ last.op = "malloc" /\ last.size = MaxRequest
  /\ last.sbrk = "ok" /\ last.ret # NULL /\ my_malloc_errno = NO_ERROR
  /\ brk = HeapBase + 2 * SBRK_SIZE /\ address_list # NULL

====
